---- MODULE Spec2Model ----
(***************************************************************************)
(* A model of the Wordle simulator of src/wordle.py: the feedback function *)
(* mark_guess, the candidate filter get_allowed_words, the two guess       *)
(* selectors and the loop simulate_wordle.                                 *)
(*                                                                         *)
(* A word is a tuple of one-letter strings, a mark a tuple over G, Y, N.   *)
(* Python positions 0..4 are positions 1..5 here.                          *)
(***************************************************************************)
EXTENDS Integers, Sequences, FiniteSets

VARIABLES
    guess,          \* simulate_wordle: the current guess (None ends the loop)
    answer,         \* the hidden word
    words,          \* simulate_wordle: the current candidate set
    results,        \* simulate_wordle: dict guess -> mark
    datalist,       \* simulate_wordle: list of (guess, mark, words)
    pc,             \* "loop", "returned" or "raised" (an exception left the run)
    wordlist,       \* the words argument simulate_wordle was called with
    guess_selector, \* which selector was passed: "position_freq" or "usage_ranking"
    usageranks,     \* the dict bound into select_best_word_by_usage_ranking
    calls           \* outcomes of successive evaluations of mark_guess(guess, answer)

vars == <<guess, answer, words, results, datalist, pc, wordlist,
          guess_selector, usageranks, calls>>

-----------------------------------------------------------------------------
(* Bounds of the model *)

\* the alphabet of the exhaustive mark_guess inputs: the first NumChars letters
NumChars == 2
\* the vocabulary of the simulation: the first NumWords words of Pool
NumWords == 6
\* how many times mark_guess is evaluated on one (guess, answer) pair
MaxCalls == 2

-----------------------------------------------------------------------------
(* Constants of src/wordle.py *)

WORD_LENGTH == 5

Alphabet == << "a", "b", "c", "d", "e", "f", "g", "h", "i", "j", "k", "l", "m",
               "n", "o", "p", "q", "r", "s", "t", "u", "v", "w", "x", "y", "z" >>

CHARS_SET == {Alphabet[i] : i \in 1..Len(Alphabet)}

NUMCHARS_SET == 0..WORD_LENGTH

RESULTS_SET == {"G", "Y", "N"}

\* Python's None (falsy, like the empty string, in "while guess")
None == << >>

\* the outcomes of a failed assert and of indexing an empty list
AssertionError == << "AssertionError" >>

IndexError == << "IndexError" >>

-----------------------------------------------------------------------------
(* Helpers for Python built-ins *)

Positions == 1..WORD_LENGTH

\* set(word)
Chars(word) == {word[i] : i \in 1..Len(word)}

\* Counter(word)[char]
Count(char, word) == Cardinality({i \in 1..Len(word) : word[i] = char})

Min(a, b) == IF a <= b THEN a ELSE b

-----------------------------------------------------------------------------
(* mark_guess, the definition in force (the second one of the file) *)

\* G where the letters agree, N where the letter is not in the answer, _ otherwise
prelim_mark(g, a) ==
    [i \in Positions |->
        IF g[i] = a[i] THEN "G" ELSE IF g[i] \notin Chars(a) THEN "N" ELSE "_"]

\* all 3^5 marks
marks == [Positions -> RESULTS_SET]

\* the marks that agree with the preliminary mark position by position
prefilt_marks(g, a) ==
    LET p == prelim_mark(g, a) IN
    {mm \in marks : \A i \in Positions : (p[i] = "_" /\ mm[i] # "G") \/ p[i] = mm[i]}

\* how many positions of g hold char and are marked G or Y
n_confirmed(char, g, mark) ==
    Cardinality({i \in Positions : g[i] = char /\ mark[i] \in {"Y", "G"}})

\* a plausible slip: the per-letter count filter is left out
only_options_prefilt(g, a) == prefilt_marks(g, a)

\* the marks whose G+Y count of every shared letter is min(Cg, Ca)
only_options(g, a) ==
    {mark \in prefilt_marks(g, a) :
        \A char \in Chars(g) \cap Chars(a) :
            Min(Count(char, g), Count(char, a)) = n_confirmed(char, g, mark)}

\* The outcomes of mark_guess(g, a): the assert passes when there are one or
\* two options, and list(only_options)[0] is then the first element in the
\* iteration order of a set of strings, which the program does not fix: any
\* of the options can be the one returned.
mark_guess(g, a) ==
    LET options == only_options(g, a) IN
    IF Cardinality(options) \in {1, 2} THEN options ELSE {AssertionError}

-----------------------------------------------------------------------------
(* Inputs *)

W(c1, c2, c3, c4, c5) == << c1, c2, c3, c4, c5 >>

Pool == << W("s","h","e","e","p"), W("s","p","e","n","t"), W("t","e","p","i","d"),
           W("e","e","r","i","e"), W("s","p","e","l","t"), W("s","p","e","n","d"),
           W("c","r","a","t","e"), W("a","r","o","s","e") >>

Vocabulary == {Pool[i] : i \in 1..Min(NumWords, Len(Pool))}

SmallAlphabet == {Alphabet[i] : i \in 1..Min(NumChars, Len(Alphabet))}

\* every word over the small alphabet, and the vocabulary
MarkInputs == [Positions -> SmallAlphabet] \cup Vocabulary

EmptyDict == [w \in {} |-> None]

-----------------------------------------------------------------------------
(* Repeated evaluation of mark_guess on one pair *)

MarkInit ==
    /\ guess \in MarkInputs
    /\ answer \in MarkInputs
    /\ calls = << >>
    /\ words = {}
    /\ wordlist = {}
    /\ results = EmptyDict
    /\ datalist = << >>
    /\ pc = "mark"
    /\ guess_selector = "none"
    /\ usageranks = EmptyDict

CallMarkGuess ==
    /\ pc = "mark"
    /\ Len(calls) < MaxCalls
    /\ \E m \in mark_guess(guess, answer) : calls' = Append(calls, m)
    /\ UNCHANGED <<guess, answer, words, results, datalist, pc, wordlist,
                   guess_selector, usageranks>>

MarkNext == CallMarkGuess

MarkSpec == MarkInit /\ [][MarkNext]_vars

-----------------------------------------------------------------------------
(* get_allowed_words *)

\* one cell of the unstacked value_counts table of (char, guess, mark): how
\* many positions of guess g hold char and carry mark m
n_marks(g, mark, char, m) ==
    Cardinality({i \in Positions : g[i] = char /\ mark[i] = m})

\* one cell of the unstacked value_counts table of (pos, char, mark): how many
\* guesses hold char at pos with mark m there
n_pos_marks(guess_results, pos, char, m) ==
    Cardinality({g \in DOMAIN guess_results :
                    g[pos] = char /\ guess_results[g][pos] = m})

\* a plausible slip: the confirmed count is taken as exact whatever N is
calc_possible_counts_exact(G, Y, N) == {G + Y}

calc_possible_counts(G, Y, N) ==
    LET n_min == G + Y IN
    IF N = 0 THEN NUMCHARS_SET \ (0..(n_min - 1)) ELSE {n_min}

\* a plausible slip: a letter marked Y or N stays allowed at its position
calc_allowed_chars_green_only(char, G, Y, N) ==
    IF G > 0 THEN {char} ELSE CHARS_SET

calc_allowed_chars(char, G, Y, N) ==
    IF G > 0 THEN {char}
    ELSE IF Y + N > 0 THEN CHARS_SET \ {char}
    ELSE CHARS_SET

\* get_info_sets(['char','guess','mark'], ...): per character, the
\* intersection over the guesses holding it of calc_possible_counts
charcounts(guess_results) ==
    LET guesses == DOMAIN guess_results
        numchars(char, g) ==
            calc_possible_counts(n_marks(g, guess_results[g], char, "G"),
                                 n_marks(g, guess_results[g], char, "Y"),
                                 n_marks(g, guess_results[g], char, "N"))
    IN  [char \in UNION {Chars(g) : g \in guesses} |->
            {n \in NUMCHARS_SET :
                \A g \in {h \in guesses : char \in Chars(h)} : n \in numchars(char, g)}]

\* get_info_sets(['pos','char','mark'], ...): per position, the intersection
\* over the characters guessed there of calc_allowed_chars
position_chars(guess_results) ==
    LET guesses == DOMAIN guess_results
        okchars(pos, char) ==
            calc_allowed_chars(char,
                               n_pos_marks(guess_results, pos, char, "G"),
                               n_pos_marks(guess_results, pos, char, "Y"),
                               n_pos_marks(guess_results, pos, char, "N"))
    IN  [pos \in Positions |->
            {c \in CHARS_SET :
                \A char \in {g[pos] : g \in guesses} : c \in okchars(pos, char)}]

word_allowed(w, cc, pchars) ==
    LET check1 == \A c \in DOMAIN cc : Count(c, w) \in cc[c]
        check2 == \A pos \in DOMAIN pchars : w[pos] \in pchars[pos]
    IN  check1 /\ check2

\* the assert that opens get_allowed_words
guess_results_valid(guess_results) ==
    \A g \in DOMAIN guess_results :
        /\ Chars(g) \subseteq CHARS_SET
        /\ Chars(guess_results[g]) \subseteq RESULTS_SET
        /\ Len(g) = Len(guess_results[g])

get_allowed_words(ws, guess_results) ==
    LET cc == charcounts(guess_results)
        pchars == position_chars(guess_results)
    IN  {w \in ws : word_allowed(w, cc, pchars)}

-----------------------------------------------------------------------------
(* The guess selectors *)

\* The position frequencies of a word set. The code divides every count by
\* numwords; the model keeps the counts, which order the scores the same way.
determine_position_frequencies(ws) ==
    [k \in {<<pos, w[pos]>> : pos \in Positions, w \in ws} |->
        Cardinality({w \in ws : w[k[1]] = k[2]})]

RECURSIVE SumUpTo(_, _)
SumUpTo(f, n) == IF n = 0 THEN 0 ELSE f[n] + SumUpTo(f, n - 1)

calc_position_freq_score(word, positionfreqs) ==
    SumUpTo([pos \in 1..Len(word) |->
                IF <<pos, word[pos]>> \in DOMAIN positionfreqs
                THEN positionfreqs[<<pos, word[pos]>>] ELSE 0],
            Len(word))

\* max(scores, key=scores.get): a word of maximal score; among equal scores
\* the dict order of a set of strings decides, which the program does not fix.
\* On an empty set the length assert of determine_position_frequencies fails.
select_best_word_by_position_freq(ws) ==
    IF ws = {} THEN {AssertionError}
    ELSE LET positionfreqs == determine_position_frequencies(ws)
             score(w) == calc_position_freq_score(w, positionfreqs)
         IN  {w \in ws : \A v \in ws : score(v) <= score(w)}

\* download_common_ordered_words: rank = place in the list, from 1
ranks_of(ordered_words) ==
    [w \in {ordered_words[i] : i \in 1..Len(ordered_words)} |->
        CHOOSE i \in 1..Len(ordered_words) :
            /\ ordered_words[i] = w
            /\ \A j \in 1..Len(ordered_words) : ordered_words[j] = w => j <= i]

\* the sort key usageranks.get(x, 1e11) of x is at most that of y
usage_rank_le(x, y, ranks) ==
    IF x \in DOMAIN ranks
    THEN y \notin DOMAIN ranks \/ ranks[x] <= ranks[y]
    ELSE y \notin DOMAIN ranks

\* sorted(...)[0]: a word of least rank; among equal ranks the iteration order
\* of the set decides. On an empty set ordered_words[0] raises IndexError.
select_best_word_by_usage_ranking(ws, ranks) ==
    IF ws = {} THEN {IndexError}
    ELSE {w \in ws : \A v \in ws : usage_rank_le(w, v, ranks)}

select_word(selector, ws, ranks) ==
    IF selector = "position_freq"
    THEN select_best_word_by_position_freq(ws)
    ELSE select_best_word_by_usage_ranking(ws, ranks)

-----------------------------------------------------------------------------
(* simulate_wordle *)

\* a plausible slip: the guess is not taken out of the candidates
next_words_keep_guess(ws, guess_results, g) == get_allowed_words(ws, guess_results)

\* words = get_allowed_words(words, results) - {guess}
next_words(ws, guess_results, g) == get_allowed_words(ws, guess_results) \ {g}

\* a plausible slip: the selector is called on an empty candidate set too
next_guess_unguarded(ws, selector, ranks) == select_word(selector, ws, ranks)

\* guess = guess_selector(words) if words else None
next_guess(ws, selector, ranks) ==
    IF ws # {} THEN select_word(selector, ws, ranks) ELSE {None}

IsError(x) == x \in {AssertionError, IndexError}

\* the usage list of the run: a few words of the vocabulary, most common first
CommonWords == << Pool[2], Pool[5], Pool[1] >>

SelectorChoices ==
    { <<"position_freq", EmptyDict>>,
      <<"usage_ranking", EmptyDict>>,
      <<"usage_ranking", ranks_of(CommonWords)>> }

Init ==
    /\ guess \in Vocabulary
    /\ answer \in Vocabulary
    /\ wordlist \in SUBSET Vocabulary
    /\ words = wordlist
    /\ results = EmptyDict
    /\ datalist = << >>
    /\ pc = "loop"
    /\ \E sc \in SelectorChoices : guess_selector = sc[1] /\ usageranks = sc[2]
    /\ calls = << >>

\* one pass of the loop body
Iterate ==
    /\ pc = "loop"
    /\ guess # None
    /\ \E mark \in mark_guess(guess, answer) :
        IF IsError(mark)
        THEN /\ pc' = "raised"
             /\ UNCHANGED <<guess, words, results, datalist>>
        ELSE LET r == [g \in DOMAIN results \cup {guess} |->
                            IF g = guess THEN mark ELSE results[g]]
             IN  IF ~guess_results_valid(r)
                 THEN /\ pc' = "raised"
                      /\ results' = r
                      /\ UNCHANGED <<guess, words, datalist>>
                 ELSE LET ws == next_words(words, r, guess) IN
                      \E g \in next_guess(ws, guess_selector, usageranks) :
                        /\ results' = r
                        /\ words' = ws
                        /\ datalist' = Append(datalist,
                               [guess |-> guess, mark |-> mark, words |-> ws])
                        /\ guess' = IF IsError(g) THEN guess ELSE g
                        /\ pc' = IF IsError(g) THEN "raised" ELSE "loop"
    /\ UNCHANGED <<answer, wordlist, guess_selector, usageranks, calls>>

\* the loop condition fails: return datalist
Return ==
    /\ pc = "loop"
    /\ guess = None
    /\ pc' = "returned"
    /\ UNCHANGED <<guess, answer, words, results, datalist, wordlist,
                   guess_selector, usageranks, calls>>

Next == Iterate \/ Return

Spec == Init /\ [][Next]_vars

-----------------------------------------------------------------------------
(* Vocabulary of the properties *)

AllCorrect == [i \in Positions |-> "G"]

Last(s) == s[Len(s)]

sheep == Pool[1]

spent == Pool[2]

\* The two-pass marking: the first pass consumes one occurrence of the
\* answer's letter for every position where the letters agree...
first_pass_remaining(g, a) ==
    [c \in Chars(g) \cup Chars(a) |->
        Count(c, a) - Cardinality({i \in Positions : g[i] = a[i] /\ g[i] = c})]

\* ...the second pass scans left to right from position i, marking Y while an
\* unconsumed occurrence remains (and consuming it), N otherwise
RECURSIVE second_pass(_, _, _, _)
second_pass(g, a, i, remaining) ==
    IF i > Len(g) THEN << >>
    ELSE IF g[i] = a[i]
         THEN << "G" >> \o second_pass(g, a, i + 1, remaining)
    ELSE IF remaining[g[i]] > 0
         THEN << "Y" >> \o second_pass(g, a, i + 1,
                                       [remaining EXCEPT ![g[i]] = @ - 1])
    ELSE << "N" >> \o second_pass(g, a, i + 1, remaining)

two_pass_mark(g, a) == second_pass(g, a, 1, first_pass_remaining(g, a))

\* G exactly where the letters agree, and per letter as many G or Y as the
\* smaller of its counts in guess and answer
CountsDuplicatesOnce(g, a, mark) ==
    /\ \A i \in Positions : mark[i] = "G" <=> g[i] = a[i]
    /\ \A c \in CHARS_SET :
          Cardinality({i \in Positions : g[i] = c /\ mark[i] \in {"G", "Y"}})
              = Min(Count(c, g), Count(c, a))

\* w meets the letter-count and position constraints of one (guess, mark) pair
SatisfiesPair(w, g, mark) ==
    /\ \A c \in Chars(g) :
          LET confirmed == Cardinality({i \in Positions :
                                          g[i] = c /\ mark[i] \in {"G", "Y"}})
              denied == Cardinality({i \in Positions : g[i] = c /\ mark[i] = "N"})
          IN  IF denied > 0 THEN Count(c, w) = confirmed
                            ELSE Count(c, w) >= confirmed
    /\ \A i \in Positions :
          IF mark[i] = "G" THEN w[i] = g[i] ELSE w[i] # g[i]

-----------------------------------------------------------------------------
(* Properties of simulate_wordle *)

\* C1: when the answer is in the word list, the candidate set recorded by
\* every iteration whose guess is not the answer still contains the answer,
\* whichever of the possible marks mark_guess returned.
C1_Soundness ==
    answer \in wordlist =>
        \A k \in 1..Len(datalist) :
            datalist[k].guess # answer => answer \in datalist[k].words

\* an iteration on a guess with two possible marks that kept the answer
C1_Witness ==
    \E k \in 1..Len(datalist) :
        /\ answer \in wordlist
        /\ datalist[k].guess # answer
        /\ Cardinality(only_options(datalist[k].guess, answer)) = 2
        /\ answer \in datalist[k].words

C6_EventuallyAnswer ==
    answer \in wordlist =>
        /\ (pc = "loop" /\ guess # None) => mark_guess(guess, answer) # {}
        /\ Len(datalist) <= Cardinality(wordlist) + 1
        /\ pc = "returned" =>
              /\ Len(datalist) >= 1
              /\ Last(datalist).guess = answer
              /\ Last(datalist).mark = AllCorrect

\* a run that reached the answer at its third guess
C6_Witness ==
    /\ pc = "returned"
    /\ answer \in wordlist
    /\ Len(datalist) >= 3
    /\ Last(datalist).guess = answer

\* C7: the iteration whose guess is the answer is marked all-Correct, leaves
\* no candidate, is the last one and selects no further guess, whether or not
\* the answer is in the word list; so a first guess equal to the answer makes
\* a run of one iteration.
C7_StopsOnSuccess ==
    \A k \in 1..Len(datalist) :
        datalist[k].guess = answer =>
            /\ k = Len(datalist)
            /\ datalist[k].mark = AllCorrect
            /\ datalist[k].words = {}
            /\ guess = None

\* a run that found the answer after an earlier guess and returned
C7_Witness ==
    /\ pc = "returned"
    /\ Len(datalist) >= 2
    /\ Last(datalist).guess = answer

\* C9: the loop makes at most |words| + 1 iterations, after that many there is
\* no next guess, and no word is guessed twice.
C9_BoundedIterations ==
    /\ Len(datalist) <= Cardinality(wordlist) + 1
    /\ Len(datalist) = Cardinality(wordlist) + 1 => guess = None
    /\ \A j, k \in 1..Len(datalist) :
          j # k => datalist[j].guess # datalist[k].guess

\* a run over at least two words that used all |words| + 1 iterations
C9_Witness ==
    /\ Cardinality(wordlist) >= 2
    /\ Len(datalist) = Cardinality(wordlist) + 1

\* C10: each recorded candidate set is a subset of the one before it (the
\* first of the word list), and each of its words meets the constraints of
\* every (guess, mark) pair up to that iteration, not only the latest.
C10_OnlyTightens ==
    \A k \in 1..Len(datalist) :
        /\ datalist[k].words \subseteq
              (IF k = 1 THEN wordlist ELSE datalist[k - 1].words)
        /\ \A j \in 1..k : \A w \in datalist[k].words :
              SatisfiesPair(w, datalist[j].guess, datalist[j].mark)

\* a candidate that survived the filters of two guesses
C10_Witness ==
    /\ Len(datalist) >= 2
    /\ datalist[2].words # {}

-----------------------------------------------------------------------------
(* Properties of mark_guess *)

\* C2 as stated: every mark mark_guess returns is the mark of the two-pass
\* algorithm.
C2_TwoPass ==
    \A k \in 1..Len(calls) :
        calls[k] # AssertionError => calls[k] = two_pass_mark(guess, answer)

\* C3 as stated: mark_guess never fails; the number of consistent marks is 1
\* or 2 for every pair.
C3_Total ==
    Len(calls) >= 1 =>
        /\ Cardinality(only_options(guess, answer)) \in {1, 2}
        /\ \A k \in 1..Len(calls) : calls[k] # AssertionError

\* C4 as stated: two evaluations of mark_guess on the same pair return the
\* same mark.
C4_Deterministic ==
    \A j, k \in 1..Len(calls) : calls[j] = calls[k]

\* C8 as stated: every returned mark counts duplicates once, and for
\* sheep/spent the s is G and of the two e positions one is Y, the other N.
C8_SheepOneYellow ==
    \A k \in 1..Len(calls) :
        calls[k] # AssertionError =>
            /\ CountsDuplicatesOnce(guess, answer, calls[k])
            /\ (guess = sheep /\ answer = spent) =>
                  /\ calls[k][1] = "G"
                  /\ {calls[k][3], calls[k][4]} = {"Y", "N"}

\* C8 amended: every returned mark counts duplicates once, and for
\* sheep/spent the mark is GNGNY: the s is G, the first e is G (it is in
\* place), the second e is N and the p is Y.
C8_NoDoubleCount ==
    \A k \in 1..Len(calls) :
        calls[k] # AssertionError =>
            /\ CountsDuplicatesOnce(guess, answer, calls[k])
            /\ (guess = sheep /\ answer = spent) =>
                  calls[k] = << "G", "N", "G", "N", "Y" >>

\* mark_guess has returned for sheep against spent
C8_Witness ==
    /\ guess = sheep
    /\ answer = spent
    /\ Len(calls) >= 1
    /\ calls[1] # AssertionError

====
